---- MODULE Spec2Model ----
(***************************************************************************)
(* A model of yamintapi (src/yamintapi/mint.py): the Mint client class,    *)
(* its request primitives, the transaction pagination generator, the       *)
(* transaction cleaning step, the memoized category/tag listings and the   *)
(* cached login.                                                           *)
(*                                                                         *)
(* The client is sequential; the remote service is the environment.  Each  *)
(* subsystem has its own variables and its own specification, so that the  *)
(* state spaces stay small:                                                *)
(*   SpecClean    _clean_transaction applied to a transaction dict         *)
(*   SpecPage     get_transactions and _get_jsondata_response_generator    *)
(*   Spec         the session: request primitives, cached_login, refresh   *)
(*   SpecCat      categories and tags with their lru_cache memoization     *)
(*   SpecTxn      get_transaction_by_id and delete_transaction             *)
(***************************************************************************)
EXTENDS Integers, Sequences, FiniteSets, TLC

\* ---- _clean_transaction ----
VARIABLES
    today_year,     \* date.today().year
    cl_txn,         \* the dict handed to _clean_transaction (mutated in place)
    cl_prev,        \* the dict as it was before the last call
    cl_exc,         \* exception of the last call, "none" when it returned
    cl_prev_exc,    \* exception of the call before the last
    cl_calls        \* number of calls made on the dict

cleanVars == <<today_year, cl_txn, cl_prev, cl_exc, cl_prev_exc, cl_calls>>

\* ---- get_transactions / _get_jsondata_response_generator ----
VARIABLES
    srv_rows,       \* the service: number of transactions the query matches
    srv_page,       \* the service: rows per page (change_transaction_page_limit)
    gt_args,        \* arguments of the get_transactions call in progress
    gt_pc,          \* "idle", "pulling" (list() is consuming), "returned", "raised"
    gt_exc,         \* the exception get_transactions raised, "none" otherwise
    gt_result,      \* the list built so far / returned
    gen_pc,         \* generator: "none", "fetch", "yield", "done", "raised"
    gen_offset,     \* generator local: offset
    gen_params,     \* generator local: params (its comparableType)
    gen_buf,        \* generator local: rows of `results` not yet yielded
    page_reqs       \* getJsonData requests of this call, with the rows each returned

pageVars == <<srv_rows, srv_page, gt_args, gt_pc, gt_exc, gt_result,
              gen_pc, gen_offset, gen_params, gen_buf, page_reqs>>

\* ---- the session ----
VARIABLES
    js_token,       \* self._js_token: "None" or a token
    jar,            \* cookie jar objects: jar id -> value of the session cookie
    session_jar,    \* self.session.cookies: the id of the jar the session holds
    cache_file,     \* cached_login.pkl
    srv_refreshing, \* the service: an account refresh is running
    pre_cookies,    \* the session's cookies when the last operation began
    last_call       \* the last operation: its name, requests, exception, result

sessVars == <<js_token, jar, session_jar, cache_file, srv_refreshing, pre_cookies,
              last_call>>

\* ---- categories and tags ----
VARIABLES
    srv_cats,       \* the service: the categories (allCategories)
    srv_next_cat,   \* the service: the id the next created category gets
    srv_tags,       \* the service: the names of the tags
    cat_cache,      \* lru_cache of get_categories
    tag_cache,      \* lru_cache of get_tags
    cat_call        \* the last category or tag operation

catVars == <<srv_cats, srv_next_cat, srv_tags, cat_cache, tag_cache, cat_call>>

\* ---- single transactions ----
VARIABLES
    srv_txns,       \* the service: transaction id -> the transaction
    txn_call        \* the last transaction operation

txnVars == <<srv_txns, txn_call>>

\* ---- update_transaction / split_transaction ----
VARIABLES
    srv_txn_tags,   \* the service: transaction id -> names of the tags on it
    edit_call       \* the last update_transaction / split_transaction call

editVars == <<srv_txn_tags, edit_call>>

\* ---- wait_for_code_via_http ----
VARIABLES
    h_timeout,          \* the timeout argument is not None
    h_pc,               \* the calling thread: where it is in wait_for_code_via_http
    timer_pc,           \* the Timer thread: "none", "waiting", "shutdown", "done"
    shutdown_request,   \* server._BaseServer__shutdown_request
    is_shut_down,       \* server._BaseServer__is_shut_down (an Event)
    backlog,            \* connections made and not accepted yet
    conn,               \* the connection the handler is serving, <<>> if none
    n_conns,            \* connections made so far
    received_code,      \* server.received_code, NoAttr while the attribute is not set
    h_log,              \* the requests handled, with the status each was answered with
    h_ret               \* what wait_for_code_via_http returned

httpVars == <<h_timeout, h_pc, timer_pc, shutdown_request, is_shut_down, backlog, conn,
              n_conns, received_code, h_log, h_ret>>

vars == <<cleanVars, pageVars, sessVars, catVars, txnVars, editVars, httpVars>>

\* what the operations of one part of the client leave alone
notClean == <<pageVars, sessVars, catVars, txnVars, editVars, httpVars>>
notPage == <<cleanVars, sessVars, catVars, txnVars, editVars, httpVars>>
notSess == <<cleanVars, pageVars, catVars, txnVars, editVars, httpVars>>
notCat == <<cleanVars, pageVars, sessVars, txnVars, editVars, httpVars>>
notTxn == <<cleanVars, pageVars, sessVars, catVars, editVars, httpVars>>
\* login also clears the memoized listings
notLogin == <<cleanVars, pageVars, txnVars, editVars, httpVars, srv_cats, srv_next_cat,
              srv_tags, cat_call>>
\* the edits fill the memoized listings
notEdit == <<cleanVars, pageVars, sessVars, txnVars, httpVars, srv_cats, srv_next_cat,
             srv_tags, cat_call>>
notHttp == <<cleanVars, pageVars, sessVars, catVars, txnVars, editVars>>

(***************************************************************************)
(* Bounds                                                                  *)
(***************************************************************************)
MaxCleanCalls == 3
MaxRows == 3        \* transactions on the service (besides the worked example)
MaxPage == 2        \* rows per page (besides the worked example)
MaxLimit == 3       \* largest `limit` argument tried
MaxOffset == 1      \* largest `offset` argument tried
MaxUserCats == 2    \* categories created on the service in one behaviour
MaxTxns == 2        \* transactions on the service

MaxTagEdits == 2

MaxParts == 2

MaxConns == 2       \* connections clients make to the listener

(***************************************************************************)
(* Strings.  An amount is a sequence of characters; a date is a sequence   *)
(* of tokens (month abbreviation, blank, two-digit numbers, separators).   *)
(***************************************************************************)
Digits == <<"0", "1", "2", "3", "4", "5", "6", "7", "8", "9">>

IsDigit(c) == \E i \in 1..10 : Digits[i] = c

DigitVal(c) == (CHOOSE i \in 1..10 : Digits[i] = c) - 1

\* str.strip(ch): drop every leading and every trailing occurrence of ch
RECURSIVE LStrip(_, _)
LStrip(s, ch) == IF s # <<>> /\ Head(s) = ch THEN LStrip(Tail(s), ch) ELSE s

RECURSIVE RStrip(_, _)
RStrip(s, ch) ==
    IF s # <<>> /\ s[Len(s)] = ch THEN RStrip(SubSeq(s, 1, Len(s) - 1), ch) ELSE s

Strip(s, ch) == RStrip(LStrip(s, ch), ch)

\* str.replace(ch, ''): drop every occurrence of ch
Remove(s, ch) == SelectSeq(s, LAMBDA c : c # ch)

RECURSIVE DigitsValue(_)
DigitsValue(s) ==
    IF s = <<>> THEN 0
    ELSE 10 * DigitsValue(SubSeq(s, 1, Len(s) - 1)) + DigitVal(s[Len(s)])

\* float(s) for a decimal literal with at most two decimals: accepted or not,
\* and its value in cents
FloatOk(s) ==
    LET neg  == s # <<>> /\ Head(s) = "-"
        body == IF neg THEN Tail(s) ELSE s
        dots == {i \in 1..Len(body) : body[i] = "."}
    IN  /\ \E i \in 1..Len(body) : IsDigit(body[i])
        /\ \A i \in 1..Len(body) : IsDigit(body[i]) \/ body[i] = "."
        /\ Cardinality(dots) <= 1
        /\ \A i \in dots : Len(body) - i <= 2

FloatCents(s) ==
    LET neg  == s # <<>> /\ Head(s) = "-"
        body == IF neg THEN Tail(s) ELSE s
        dot  == IF \E i \in 1..Len(body) : body[i] = "."
                THEN CHOOSE i \in 1..Len(body) : body[i] = "."
                ELSE Len(body) + 1
        int  == SubSeq(body, 1, dot - 1)
        frac == SubSeq(body, dot + 1, Len(body))
        fr2  == IF Len(frac) = 0 THEN 0
                ELSE IF Len(frac) = 1 THEN 10 * DigitsValue(frac)
                ELSE DigitsValue(frac)
        mag  == 100 * DigitsValue(int) + fr2
    IN  IF neg THEN 0 - mag ELSE mag

\* the value of a dict entry: a str or a float (in cents)
StrVal(s) == [t |-> "str", s |-> s, n |-> 0]
FloatVal(n) == [t |-> "float", s |-> <<>>, n |-> n]

MonthAbbr == <<"Jan", "Feb", "Mar", "Apr", "May", "Jun",
               "Jul", "Aug", "Sep", "Oct", "Nov", "Dec">>

\* the token of a number below 100 written with two digits ("02", "23")
Tok2(n) == CASE n \div 10 = 0 -> "0" \o Digits[(n % 10) + 1]
             [] OTHER -> Digits[(n \div 10) + 1] \o Digits[(n % 10) + 1]

DayToks == {Tok2(d) : d \in 1..31}

\* '/' in date_str
HasSlash(d) == \E i \in 1..Len(d) : d[i] = "/"

\* datetime.strptime(date_str + str(year), '%b %d%Y') accepts 'Mon DD' only
StrptimeOk(d) ==
    /\ Len(d) = 3
    /\ \E m \in 1..12 : MonthAbbr[m] = d[1]
    /\ d[2] = " "
    /\ d[3] \in DayToks

\* .strftime('%m/%d/%y') of the parsed date
Strftime(d, year) ==
    LET m == CHOOSE k \in 1..12 : MonthAbbr[k] = d[1]
    IN  <<Tok2(m), "/", d[3], "/", Tok2(year % 100)>>

fix_date(d, year) ==
    IF HasSlash(d) THEN [exc |-> "none", val |-> d]
    ELSE IF StrptimeOk(d) THEN [exc |-> "none", val |-> Strftime(d, year)]
    ELSE [exc |-> "ValueError", val |-> d]

\* raw_transaction['amount'].strip('$').replace(',', '') -> float, signed by isDebit
clean_amount(a, isDebit) ==
    IF a.t # "str" THEN [exc |-> "AttributeError", val |-> a]
    ELSE LET txt == Remove(Strip(a.s, "$"), ",")
         IN  IF ~FloatOk(txt) THEN [exc |-> "ValueError", val |-> a]
             ELSE [exc |-> "none",
                   val |-> FloatVal(FloatCents(txt) * (IF isDebit THEN -1 ELSE 1))]

\* _clean_transaction: the dict after the call and the exception it raised.  The
\* dict is updated in place, key by key, so an exception leaves the keys already
\* rewritten in their new form.
clean_transaction(t, year) ==
    LET d1 == fix_date(t.date, year)
        t1 == [t EXCEPT !.date = d1.val]
        d2 == fix_date(t.odate, year)
        t2 == [t1 EXCEPT !.odate = d2.val]
        am == clean_amount(t.amount, t.isDebit)
        t3 == [t2 EXCEPT !.amount = am.val]
    IN  IF d1.exc # "none" THEN [exc |-> d1.exc, val |-> t]
        ELSE IF d2.exc # "none" THEN [exc |-> d2.exc, val |-> t1]
        ELSE IF am.exc # "none" THEN [exc |-> am.exc, val |-> t2]
        ELSE [exc |-> "none", val |-> t3]

(***************************************************************************)
(* SpecClean: a transaction dict as the service returns it, cleaned again  *)
(* and again.                                                              *)
(***************************************************************************)
Years == {2021, 2022}

RawDates == { <<"Feb", " ", "23">>, <<"Dec", " ", "01">>,
              <<"02", "/", "23", "/", "20">>,
              <<"2020", "-", "02", "-", "23">> }

RawAmounts == { <<"$", "1", "2", ".", "3", "4">>,
                <<"$", "1", ",", "2", "3", "4", ".", "5", "0">>,
                <<"$", "0", ".", "0", "5">>,
                <<"7">> }

RawTransactions ==
    { [date |-> d, odate |-> od, amount |-> StrVal(a), isDebit |-> b] :
        d \in RawDates, od \in RawDates, a \in RawAmounts, b \in BOOLEAN }

InitCleanVars ==
    /\ today_year \in Years
    /\ cl_txn \in RawTransactions
    /\ cl_prev = cl_txn
    /\ cl_exc = "none"
    /\ cl_prev_exc = "none"
    /\ cl_calls = 0

\* the other specifications leave the dict alone
IdleCleanVars ==
    /\ today_year = 2021
    /\ cl_txn = [date |-> <<>>, odate |-> <<>>, amount |-> StrVal(<<>>), isDebit |-> FALSE]
    /\ cl_prev = cl_txn
    /\ cl_exc = "none"
    /\ cl_prev_exc = "none"
    /\ cl_calls = 0

CleanTransaction ==
    /\ cl_calls < MaxCleanCalls
    /\ LET r == clean_transaction(cl_txn, today_year)
       IN  /\ cl_txn' = r.val
           /\ cl_exc' = r.exc
    /\ cl_prev' = cl_txn
    /\ cl_prev_exc' = cl_exc
    /\ cl_calls' = cl_calls + 1
    /\ UNCHANGED <<today_year, notClean>>

NextClean == CleanTransaction

(***************************************************************************)
(* Responses and _get_json_response                                        *)
(***************************************************************************)
\* What the client looks at in an HTTP response: the status code, whether the
\* content-type matches text/json|application/json, whether the body contains
\* 'session has expired' (any case), and whether the body parses as JSON.
\* set_cookie is what the response does to the session cookie: "keep" it, delete
\* it ("del"), or set it to a value.
CookieEffects == {"keep", "del", "b"}

Responses ==
    [status : {200, 401, 500}, json_ctype : BOOLEAN, expired_text : BOOLEAN,
     parses : BOOLEAN, set_cookie : CookieEffects]

OkResponse ==
    [status |-> 200, json_ctype |-> TRUE, expired_text |-> FALSE, parses |-> TRUE,
     set_cookie |-> "keep"]

\* the service's answer to an expired session, and to a request it cannot serve
ExpiredResponse ==
    [status |-> 401, json_ctype |-> FALSE, expired_text |-> TRUE, parses |-> FALSE,
     set_cookie |-> "keep"]

ErrorResponse ==
    [status |-> 500, json_ctype |-> FALSE, expired_text |-> FALSE, parses |-> FALSE,
     set_cookie |-> "keep"]

PlainResponses == {OkResponse, ExpiredResponse, ErrorResponse}

\* the exception _get_json_response raises for a response, "none" if it returns
json_response_exc(r, expect_json) ==
    IF r.status # 200 \/ (expect_json /\ ~r.json_ctype)
    THEN IF r.expired_text THEN "MintSessionExpiredException" ELSE "RuntimeError"
    ELSE IF ~r.parses THEN "JSONDecodeError"
    ELSE "none"

(***************************************************************************)
(* get_transactions                                                        *)
(***************************************************************************)
SortFields == {"date", "amount", "merchant", "category", "account"}

\* the dict literal of get_transactions, in source order
comparableTypeItems ==
    << <<"date", TRUE, 4>>, <<"date", FALSE, 8>>,
       <<"amount", TRUE, 7>>, <<"amount", FALSE, 3>>,
       <<"merchant", TRUE, 1>>, <<"merchant", FALSE, 5>>,
       <<"category", TRUE, 2>>, <<"category", TRUE, 6>> >>

\* a dict display keeps, for a repeated key, the last value given
DictHas(items, f, a) == \E i \in 1..Len(items) : items[i][1] = f /\ items[i][2] = a

DictGet(items, f, a) ==
    LET last == CHOOSE i \in 1..Len(items) :
                    /\ items[i][1] = f /\ items[i][2] = a
                    /\ \A j \in (i + 1)..Len(items) :
                           ~(items[j][1] = f /\ items[j][2] = a)
    IN  items[last][3]

comparableTypeDefaulting(f, a) ==
    IF DictHas(comparableTypeItems, f, a)
    THEN [none |-> FALSE, code |-> DictGet(comparableTypeItems, f, a)]
    ELSE [none |-> FALSE, code |-> 8]

\* {...}.get((sort_field, sort_ascending), None)
comparableType(f, a) ==
    IF DictHas(comparableTypeItems, f, a)
    THEN [none |-> FALSE, code |-> DictGet(comparableTypeItems, f, a)]
    ELSE [none |-> TRUE, code |-> 0]

\* `limit`: None, or a number
NoLimit == [given |-> FALSE, n |-> 0]
Limits == {NoLimit} \cup {[given |-> TRUE, n |-> k] : k \in 0..MaxLimit}

TruthyUnlessNone(limit) == limit.given

\* `if limit` (None and 0 are false)
Truthy(limit) == limit.given /\ limit.n # 0

\* the service's row at index i of the result set, as getJsonData returns it
RawRow(i) ==
    [id |-> i, date |-> <<"Feb", " ", "23">>, odate |-> <<"02", "/", "21", "/", "20">>,
     amount |-> StrVal(<<"$", "1", ".", "5", "0">>), isDebit |-> (i % 2 = 1)]

\* the page the service returns for an offset
PageAt(offset) ==
    LET last == IF offset + srv_page < srv_rows THEN offset + srv_page ELSE srv_rows
    IN  [i \in 1..(IF last > offset THEN last - offset ELSE 0) |-> RawRow(offset + i - 1)]

\* the worked example of the spec: pages of 100, 100, 37 and 0 rows
ExampleService == [rows |-> 237, page |-> 100]

Services ==
    {[rows |-> n, page |-> p] : n \in 0..MaxRows, p \in 1..MaxPage}
        \cup {ExampleService}

GtArgs ==
    [sort_field : SortFields, sort_ascending : BOOLEAN, limit : Limits,
     offset : 0..MaxOffset, do_basic_cleaning : BOOLEAN]

NoArgs ==
    [sort_field |-> "date", sort_ascending |-> FALSE, limit |-> NoLimit,
     offset |-> 0, do_basic_cleaning |-> TRUE]

PageVarsAtRest ==
    /\ gt_args = NoArgs
    /\ gt_pc = "idle"
    /\ gt_exc = "none"
    /\ gt_result = <<>>
    /\ gen_pc = "none"
    /\ gen_offset = 0
    /\ gen_params = 0
    /\ gen_buf = <<>>
    /\ page_reqs = <<>>

InitPageVars ==
    /\ \E s \in Services : srv_rows = s.rows /\ srv_page = s.page
    /\ PageVarsAtRest

IdlePageVars ==
    /\ srv_rows = 0
    /\ srv_page = 1
    /\ PageVarsAtRest

\* One call of get_transactions (the call keeps nothing on the client, so a later
\* call starts as this one does).
\* get_transactions up to the creation of the generator: the sort code lookup,
\* the ValueError for an unsupported pair, params, and the (lazy) generator
\* _get_jsondata_response_generator(params, initial_offset=offset)
GetTransactions ==
    /\ gt_pc = "idle"
    /\ \E a \in GtArgs :
        LET ct == comparableType(a.sort_field, a.sort_ascending)
        IN  /\ gt_args' = a
            /\ gt_result' = <<>>
            /\ page_reqs' = <<>>
            /\ gen_buf' = <<>>
            /\ IF ct.none
               THEN /\ gt_pc' = "raised"
                    /\ gt_exc' = "ValueError"
                    /\ gen_pc' = "none"
                    /\ gen_offset' = 0
                    /\ gen_params' = 0
               ELSE /\ gt_pc' = "pulling"
                    /\ gt_exc' = "none"
                    /\ gen_pc' = "fetch"
                    /\ gen_offset' = a.offset
                    /\ gen_params' = ct.code
    /\ UNCHANGED <<srv_rows, srv_page, notPage>>

\* islice(transactions, limit) if limit else transactions: whether list() asks
\* the generator for one more item
WantsMore ==
    /\ gt_pc = "pulling"
    /\ Truthy(gt_args.limit) => Len(gt_result) < gt_args.limit.n

\* map(self._clean_transaction, ...) when do_basic_cleaning
Delivered(row) ==
    IF gt_args.do_basic_cleaning THEN clean_transaction(row, 2021).val ELSE row

NextOffsetForgetsOld(offset, results) == Len(results)

\* the generator's `offset += len(results)`
NextOffset(offset, results) == offset + Len(results)

\* the generator resumed at the top of its loop: one getJsonData request at
\* `offset`; the response is rejected (the exception leaves get_transactions),
\* or its rows become `results`; an empty page ends the generator
GenFetch ==
    /\ WantsMore
    /\ gen_pc = "fetch"
    /\ \E r \in PlainResponses :
        LET exc     == json_response_exc(r, TRUE)
            results == IF exc = "none" THEN PageAt(gen_offset) ELSE <<>>
        IN  /\ page_reqs' = Append(page_reqs,
                   [offset |-> gen_offset, comparableType |-> gen_params,
                    rows |-> Len(results), exc |-> exc])
            /\ IF exc # "none"
               THEN /\ gen_pc' = "raised"
                    /\ gt_pc' = "raised"
                    /\ gt_exc' = exc
                    /\ UNCHANGED <<gen_offset, gen_buf>>
               ELSE /\ gen_offset' = NextOffset(gen_offset, results)
                    /\ gen_buf' = results
                    /\ gen_pc' = IF results = <<>> THEN "done" ELSE "yield"
                    /\ UNCHANGED <<gt_pc, gt_exc>>
    /\ UNCHANGED <<srv_rows, srv_page, gt_args, gt_result, gen_params, notPage>>

\* `yield result`: the next row of `results` goes to the consumer; after the
\* last row of the page the next resumption is a new request
GenYield ==
    /\ WantsMore
    /\ gen_pc = "yield"
    /\ gt_result' = Append(gt_result, Delivered(Head(gen_buf)))
    /\ gen_buf' = Tail(gen_buf)
    /\ gen_pc' = IF Tail(gen_buf) = <<>> THEN "fetch" ELSE "yield"
    /\ UNCHANGED <<srv_rows, srv_page, gt_args, gt_pc, gt_exc, gen_offset,
                   gen_params, page_reqs, notPage>>

\* list(...) is complete: the generator is exhausted, or islice has its `limit` items
GetTransactionsReturn ==
    /\ gt_pc = "pulling"
    /\ gen_pc = "done" \/ ~WantsMore
    /\ gt_pc' = "returned"
    /\ UNCHANGED <<srv_rows, srv_page, gt_args, gt_exc, gt_result, gen_pc,
                   gen_offset, gen_params, gen_buf, page_reqs, notPage>>

NextPage == GetTransactions \/ GenFetch \/ GenYield \/ GetTransactionsReturn


(***************************************************************************)
(* The session: cookies, token, request primitives                         *)
(***************************************************************************)
JarIds == {1, 2}

NoCookie == "-"

CookieValues == {NoCookie, "a", "b"}

Tokens == {"t1", "t2"}

\* the jar the session does not hold (the next object allocated)
FreshJar == CHOOSE j \in JarIds : j # session_jar

\* the session's cookies, by value
Cookies == jar[session_jar]

\* extract_cookies_to_jar: a response's Set-Cookie acts on the jar in place
SetCookie(c, eff) ==
    CASE eff = "keep" -> c
      [] eff = "del" -> NoCookie
      [] OTHER -> eff

\* an unreferenced jar is garbage: it is kept empty
OneJar(id, c) == [j \in JarIds |-> IF j = id THEN c ELSE NoCookie]

\* self.session.request(...): the jar the session holds takes the response's cookies
JarAfterRequest(r) == [jar EXCEPT ![session_jar] = SetCookie(jar[session_jar], r.set_cookie)]

\* the record of an operation: its requests in order, the exception that left it
\* ("none" when it returned), what it returned, and what the interactive login
\* did in it ("no" when it did not run)
Call(op, reqs, exc, ret, login) ==
    [op |-> op, reqs |-> reqs, exc |-> exc, ret |-> ret, login |-> login]

NoCall == Call("none", <<>>, "none", "None", "no")

\* the responses tried on the legacy JSON endpoints, and on composite operations
JsonResponses ==
    {r \in Responses : r.set_cookie = "keep"} \cup {[OkResponse EXCEPT !.set_cookie = "b"]}

CommonResponses ==
    {OkResponse, ExpiredResponse, ErrorResponse, [OkResponse EXCEPT !.set_cookie = "b"],
     [ExpiredResponse EXCEPT !.set_cookie = "del"]}

\* the responses tried where the cookies are not looked at

\* a request sent, with the response to it and what its body holds
Req(kind, url, r, payload) == [kind |-> kind, url |-> url, resp |-> r, payload |-> payload]

\* the record of an operation that is one legacy JSON call (_get_json_response)
\* returning `ret` when the response is accepted
JsonCall(op, url, expect_json, r, payload, ret) ==
    Call(op, <<Req("json", url, r, payload)>>, json_response_exc(r, expect_json),
         IF json_response_exc(r, expect_json) = "none" THEN ret ELSE "None", "no")

\* change_transaction_page_limit: a JSON call with expect_json=False
ChangeTransactionPageLimit ==
    \E r \in JsonResponses :
        /\ jar' = JarAfterRequest(r)
        /\ last_call' = JsonCall("change_transaction_page_limit",
                                 "updatePreference.xevent", FALSE, r, "other",
                                 "json")
        /\ pre_cookies' = Cookies
        /\ UNCHANGED <<js_token, session_jar, cache_file, srv_refreshing, notSess>>

\* 'isRefreshing' in resp
HasRefreshingKey(payload) == payload = "status"

StatusPayloads == {"status", "other"}

\* is_logged_in(check=False): no request
IsLoggedInLocal ==
    /\ last_call' = Call("is_logged_in", <<>>, "none",
                         IF js_token # "None" THEN "True" ELSE "False", "no")
    /\ pre_cookies' = Cookies
    /\ UNCHANGED <<js_token, jar, session_jar, cache_file, srv_refreshing, notSess>>

\* is_logged_in(check=True): the userStatus.xevent probe
IsLoggedInCheck ==
    \E r \in JsonResponses, payload \in StatusPayloads :
        /\ jar' = JarAfterRequest(r)
        /\ last_call' = JsonCall("is_logged_in", "userStatus.xevent", TRUE, r, payload,
                                 IF HasRefreshingKey(payload) THEN "True" ELSE "False")
        /\ pre_cookies' = Cookies
        /\ UNCHANGED <<js_token, session_jar, cache_file, srv_refreshing, notSess>>

RequestIds == {"id1", "id2"}

\* _get_service_response after the JSON call returned: the lookup of the
\* request's id in result['response']
service_response(id, keys) ==
    IF id \notin keys THEN [exc |-> "RuntimeError", ret |-> "None"]
    ELSE [exc |-> "none", ret |-> id]

\* the params dict get_accounts hands to _get_service_response
AccountsRequest == [service |-> "MintAccountService", task |-> "getAccountsSorted"]

service_request_in_place(data, id) ==
    [sent |-> data @@ [id |-> id], caller |-> data @@ [id |-> id]]

\* data = data.copy(); data['id'] = ...: the dict that is sent, and the caller's
service_request(data, id) == [sent |-> data @@ [id |-> id], caller |-> data]

\* get_accounts: a bundled-service call; the response map holds the ids `keys`,
\* and the payload stored under an id is named by that id
GetAccounts ==
    \E r \in CommonResponses, id \in RequestIds, keys \in SUBSET RequestIds :
        LET exc == json_response_exc(r, TRUE)
            sr  == service_response(id, keys)
        IN  /\ jar' = JarAfterRequest(r)
            /\ last_call' = Call("get_accounts",
                                 <<Req("json", "bundledServiceController.xevent", r, "other")>>,
                                 IF exc # "none" THEN exc ELSE sr.exc,
                                 IF exc # "none" THEN "None" ELSE sr.ret, "no")
                               @@ [keys |-> keys,
                                   sent |-> service_request(AccountsRequest, id).sent,
                                   data |-> service_request(AccountsRequest, id).caller]
            /\ pre_cookies' = Cookies
            /\ UNCHANGED <<js_token, session_jar, cache_file, srv_refreshing, notSess>>

\* _init_session(cookies): a new Session (with a new, empty jar); `if cookies:`
\* holds for a jar that is not empty, and then the session takes that jar
init_session_jar(cookies_ref, jars) ==
    IF jars[cookies_ref] # NoCookie THEN cookies_ref ELSE FreshJar

\* _get_financial_provider_response: prev_cookies is a reference to the jar the
\* session holds; the request acts on that same jar; _init_session(prev_cookies)
\* then hands the jar back.  The jars and the session's jar after the call.
provider_response_jars(r) ==
    LET prev_cookies == session_jar
        jars         == JarAfterRequest(r)
        new_ref      == init_session_jar(prev_cookies, jars)
    IN  [ref |-> new_ref, jars |-> OneJar(new_ref, jars[new_ref])]

\* res.json() of a provider response
provider_json_exc(r) == IF r.parses THEN "none" ELSE "JSONDecodeError"

\* get_financial_providers: a REST-style provider call and res.json()
GetFinancialProviders ==
    \E r \in Responses :
        LET after == provider_response_jars(r)
        IN  /\ jar' = after.jars
            /\ session_jar' = after.ref
            /\ last_call' = Call("get_financial_providers",
                                 <<Req("provider", "/v1/providers", r, "other")>>,
                                 provider_json_exc(r),
                                 IF r.parses THEN "json" ELSE "None", "no")
            /\ pre_cookies' = Cookies
            /\ UNCHANGED <<js_token, cache_file, srv_refreshing, notSess>>

\* the jars and the session's jar after provider calls with responses r1, then r2
provider_response_jars2(r1, r2) ==
    LET a1      == provider_response_jars(r1)
        jars2   == [a1.jars EXCEPT ![a1.ref] = SetCookie(a1.jars[a1.ref], r2.set_cookie)]
        new_ref == IF jars2[a1.ref] # NoCookie THEN a1.ref
                   ELSE CHOOSE j \in JarIds : j # a1.ref
    IN  [ref |-> new_ref, jars |-> OneJar(new_ref, jars2[new_ref])]

\* what refresh_accounts returns once initiate_account_refresh_all returned
refresh_accounts_result(refresh_json) == "None"

\* refresh_accounts: initiate_account_refresh_all, that is get_financial_providers,
\* the lookup of the 'refreshAllProviders' link (has_link) and a POST to its href;
\* the service starts a refresh on a POST it accepts (and may have finished it
\* by the time the call returns)
RefreshAccounts ==
    \E r1 \in CommonResponses, has_link \in BOOLEAN, r2 \in CommonResponses,
       running \in BOOLEAN :
        LET q1 == Req("provider", "/v1/providers", r1,
                      IF has_link THEN "links" ELSE "other")
            q2 == Req("provider", "refreshAllProviders", r2, "other")
            a1 == provider_response_jars(r1)
            a2 == provider_response_jars2(r1, r2)
        IN  /\ pre_cookies' = Cookies
            /\ UNCHANGED <<js_token, cache_file, notSess>>
            /\ IF provider_json_exc(r1) # "none"
               THEN /\ last_call' = Call("refresh_accounts", <<q1>>,
                                         provider_json_exc(r1), "None", "no")
                    /\ jar' = a1.jars /\ session_jar' = a1.ref
                    /\ UNCHANGED srv_refreshing
               ELSE IF ~has_link
               THEN /\ last_call' = Call("refresh_accounts", <<q1>>, "RuntimeError",
                                         "None", "no")
                    /\ jar' = a1.jars /\ session_jar' = a1.ref
                    /\ UNCHANGED srv_refreshing
               ELSE /\ last_call' = Call("refresh_accounts", <<q1, q2>>,
                                         provider_json_exc(r2),
                                         IF provider_json_exc(r2) = "none"
                                         THEN refresh_accounts_result("json")
                                         ELSE "None", "no")
                    /\ jar' = a2.jars /\ session_jar' = a2.ref
                    /\ srv_refreshing' = IF r2.status = 200 THEN running
                                         ELSE srv_refreshing

\* the jars and the session's jar after one more provider call, with response r
provider_jars_step(a, r) ==
    LET jars2   == [a.jars EXCEPT ![a.ref] = SetCookie(a.jars[a.ref], r.set_cookie)]
        new_ref == IF jars2[a.ref] # NoCookie THEN a.ref
                   ELSE CHOOSE j \in JarIds : j # a.ref
    IN  [ref |-> new_ref, jars |-> OneJar(new_ref, jars2[new_ref])]

\* initiate_account_refresh(fi_id): _get_provider (get_financial_providers and
\* the search for the provider and its 'refreshProvider' link: found), then a
\* POST to the link, a PUT of the provision ticket and a GET of the provider;
\* the responses of the POST and the PUT are not looked at
InitiateAccountRefresh ==
    \E r1 \in {OkResponse, ErrorResponse}, found \in BOOLEAN :
        LET q1 == Req("provider", "/v1/providers", r1,
                      IF found THEN "links" ELSE "other")
            a1 == provider_response_jars(r1)
            done(reqs, exc, ret, a) ==
                /\ last_call' = Call("initiate_account_refresh", reqs, exc, ret, "no")
                /\ jar' = a.jars /\ session_jar' = a.ref
        IN  /\ pre_cookies' = Cookies
            /\ UNCHANGED <<js_token, cache_file, srv_refreshing, notSess>>
            /\ IF provider_json_exc(r1) # "none"
               THEN done(<<q1>>, provider_json_exc(r1), "None", a1)
               ELSE IF ~found THEN done(<<q1>>, "RuntimeError", "None", a1)
               ELSE \E r2, r3, r4 \in PlainResponses :
                    LET q2 == Req("provider", "refreshProvider", r2, "other")
                        q3 == Req("provider", "provision/ticket", r3, "other")
                        q4 == Req("provider", "self", r4, "other")
                        a4 == provider_jars_step(provider_jars_step(
                                  provider_jars_step(a1, r2), r3), r4)
                    IN  done(<<q1, q2, q3, q4>>, provider_json_exc(r4),
                             IF r4.parses THEN "json" ELSE "None", a4)

\* the service finishes a refresh
ServerRefreshDone ==
    /\ srv_refreshing
    /\ srv_refreshing' = FALSE
    /\ UNCHANGED <<js_token, jar, session_jar, cache_file, pre_cookies, last_call,
                   notSess>>

(***************************************************************************)
(* lru_cache                                                               *)
(***************************************************************************)
\* an lru_cache of a method without arguments: empty, or holding the value the
\* method returned
NotCached == [cached |-> FALSE, value |-> {}]

Cached(v) == [cached |-> TRUE, value |-> v]

(***************************************************************************)
(* login and cached_login                                                  *)
(***************************************************************************)
Emails == {"e1", "e2"}

\* How the browser-driven login ends: the login page cannot be driven (an
\* exception before the token loop), no token is found (RuntimeError after the
\* loop, self._js_token left None), or a token is read and the driver's cookies
\* are set on the session's jar.
LoginOutcomes ==
    {[kind |-> "page_failed", token |-> "None", cookie |-> "keep"],
     [kind |-> "no_token", token |-> "None", cookie |-> "keep"]}
        \cup [kind : {"ok"}, token : Tokens, cookie : {"keep", "a", "b"}]

\* login applied to a session with the token `tok`, holding jar `ref` of `jars`
login_result(o, tok, ref, jars) ==
    CASE o.kind = "page_failed" ->
            [exc |-> "Exception", token |-> tok, jars |-> jars]
      [] o.kind = "no_token" ->
            [exc |-> "RuntimeError", token |-> "None", jars |-> jars]
      [] OTHER ->
            [exc |-> "none", token |-> o.token,
             jars |-> [jars EXCEPT ![ref] = SetCookie(jars[ref], o.cookie)]]

Login ==
    \E o \in LoginOutcomes :
        LET lr == login_result(o, js_token, session_jar, jar)
        IN  /\ js_token' = lr.token
            /\ jar' = lr.jars
            /\ last_call' = Call("login", <<>>, lr.exc,
                                 IF lr.exc = "none" THEN "self" ELSE "None",
                                 IF lr.exc = "none" THEN "ok" ELSE "failed")
            /\ pre_cookies' = Cookies
            /\ cat_cache' = IF lr.exc = "none" THEN NotCached ELSE cat_cache
            /\ tag_cache' = IF lr.exc = "none" THEN NotCached ELSE tag_cache
            /\ UNCHANGED <<session_jar, cache_file, srv_refreshing, notLogin>>

CACHE_VERSION == 0

NoCacheFile ==
    [exists |-> FALSE, version |-> 0, email |-> "e1", js_token |-> "None",
     cookies |-> NoCookie]

CacheFile(version, email, token, cookies) ==
    [exists |-> TRUE, version |-> version, email |-> email, js_token |-> token,
     cookies |-> cookies]

cache_matches_any_version(cached, email) == cached.exists /\ cached.email = email

\* `cached['version'] == CACHE_VERSION and cached['email'] == email`
cache_matches(cached, email) ==
    cached.exists /\ cached.version = CACHE_VERSION /\ cached.email = email

\* what cached_login does with the outcome of is_logged_in(check=True):
\* "return" (cached login used), "login" (fall through to login), or "raise"
probe_decision(exc, logged_in) ==
    IF exc = "none" THEN (IF logged_in THEN "return" ELSE "login")
    ELSE IF exc = "MintSessionExpiredException" THEN "login"
    ELSE "raise"

ProbeResponses ==
    CommonResponses \cup {[OkResponse EXCEPT !.json_ctype = FALSE],
                          [ErrorResponse EXCEPT !.json_ctype = TRUE, !.parses = TRUE]}

\* cached_login(email, ...): r and payload are the answer to the probe (sent only
\* when the cache file matches), o is how the interactive login ends
CachedLogin ==
    \E email \in Emails, r \in ProbeResponses, payload \in StatusPayloads :
        LET hit     == cache_matches(cache_file, email)
            \* the cached token, and the unpickled jar as the session's jar
            tok1    == IF hit THEN cache_file.js_token ELSE js_token
            ref1    == IF hit THEN FreshJar ELSE session_jar
            jars1   == IF hit THEN OneJar(ref1, cache_file.cookies) ELSE jar
            \* is_logged_in(check=True)
            jars2   == IF hit
                       THEN [jars1 EXCEPT ![ref1] = SetCookie(jars1[ref1], r.set_cookie)]
                       ELSE jars1
            pexc    == json_response_exc(r, TRUE)
            decide  == IF hit THEN probe_decision(pexc, HasRefreshingKey(payload))
                       ELSE "login"
            reqs    == IF hit THEN <<Req("json", "userStatus.xevent", r, payload)>>
                       ELSE <<>>
        IN  \* without a matching cache file no probe is sent: one choice stands for all
            /\ hit \/ (r = OkResponse /\ payload = "status")
            /\ session_jar' = ref1
            /\ pre_cookies' = Cookies
            /\ UNCHANGED <<srv_refreshing, notLogin>>
            /\ \/ /\ decide = "return"
                  /\ js_token' = tok1
                  /\ jar' = jars2
                  /\ last_call' = Call("cached_login", reqs, "none", "self", "no")
                                    @@ [email |-> email]
                  /\ UNCHANGED <<cache_file, cat_cache, tag_cache>>
               \/ /\ decide = "raise"
                  /\ js_token' = tok1
                  /\ jar' = jars2
                  /\ last_call' = Call("cached_login", reqs, pexc, "None", "no")
                                    @@ [email |-> email]
                  /\ UNCHANGED <<cache_file, cat_cache, tag_cache>>
               \/ /\ decide = "login"
                  /\ \E o \in LoginOutcomes :
                        LET lr == login_result(o, tok1, ref1, jars2)
                        IN  /\ js_token' = lr.token
                            /\ jar' = lr.jars
                            /\ last_call' =
                                   Call("cached_login", reqs, lr.exc,
                                        IF lr.exc = "none" THEN "self" ELSE "None",
                                        IF lr.exc = "none" THEN "ok" ELSE "failed")
                                       @@ [email |-> email]
                            /\ cat_cache' = IF lr.exc = "none" THEN NotCached
                                            ELSE cat_cache
                            /\ tag_cache' = IF lr.exc = "none" THEN NotCached
                                            ELSE tag_cache
                            /\ cache_file' =
                                   IF lr.exc = "none"
                                   THEN CacheFile(CACHE_VERSION, email, lr.token,
                                                  lr.jars[ref1])
                                   ELSE cache_file

\* the cache file found at start: none, or one written by an earlier run, of this
\* or of another cache version, for this or for another email
InitialCacheFiles ==
    {NoCacheFile} \cup {CacheFile(v, e, "t1", "a") : v \in {CACHE_VERSION, 1}, e \in Emails}

SessionAtRest ==
    /\ js_token = "None"
    /\ session_jar = 1
    /\ jar = OneJar(1, NoCookie)
    /\ srv_refreshing = FALSE
    /\ pre_cookies = NoCookie
    /\ last_call = NoCall

InitSessVars == SessionAtRest /\ cache_file \in InitialCacheFiles

IdleSessVars == SessionAtRest /\ cache_file = NoCacheFile

NextSession ==
    \/ Login
    \/ ChangeTransactionPageLimit
    \/ IsLoggedInLocal
    \/ IsLoggedInCheck
    \/ GetAccounts
    \/ GetFinancialProviders
    \/ RefreshAccounts
    \/ InitiateAccountRefresh
    \/ ServerRefreshDone

NextLogin == Login \/ CachedLogin \/ IsLoggedInLocal

(***************************************************************************)
(* Categories and tags                                                     *)
(***************************************************************************)
\* os.path.join and the URL a request is sent to, as sequences of pieces
MINT_ROOT_URL == <<"https:", "//", "mint.intuit.com">>

\* os.path.join(root, path): a path that starts with '/' replaces the root
os_path_join(root, path) ==
    IF path # <<>> /\ Head(path) = "/" THEN path ELSE root \o <<"/">> \o path

\* requests refuses a URL without a scheme (MissingSchema) before sending anything
HasScheme(url) == url # <<>> /\ Head(url) \in {"https:", "http:"}

UserCategoryMinId == 10000

Category(id, name, parentId, depth) ==
    [id |-> id, name |-> name, parentId |-> parentId, depth |-> depth]

\* the categories the service provides: two top-level ones and a child
BaseCategories ==
    {Category(1, "Auto", 0, 1), Category(2, "Home", 0, 1), Category(101, "A", 1, 2)}

CatNames == {"A", "B"}

\* category ids an operation is tried with: provided, user-made, unknown
CatIds == {1, 2, 101, 999} \cup (UserCategoryMinId..(UserCategoryMinId + MaxUserCats - 1))

TagNames == {"x", "y"}

\* the id of a tag (ids are positive)
TagId(name) ==
    CASE name = "x" -> 11 [] name = "y" -> 12 [] name = "A" -> 21 [] name = "B" -> 22
      [] OTHER -> 23

CatCall(op, name, id, reqs, exc, ret) ==
    [op |-> op, name |-> name, id |-> id, reqs |-> reqs, exc |-> exc, ret |-> ret]

NoCatCall == CatCall("none", "", 0, <<>>, "none", 0)

\* the exception of a bundled-service call: that of the JSON call, or
\* RuntimeError when the request's id is not in the response map
service_call_exc(r, id_present) ==
    IF json_response_exc(r, TRUE) # "none" THEN json_response_exc(r, TRUE)
    ELSE IF ~id_present THEN "RuntimeError"
    ELSE "none"

\* the ways a bundled-service call for `value` can end
ServiceFetches(task, value) ==
    {[exc |-> service_call_exc(r, idp), value |-> value,
      reqs |-> <<Req("json", "bundledServiceController.xevent", r, task)>>] :
        r \in PlainResponses, idp \in BOOLEAN}

\* a call of an lru_cache'd method: the cached value without a request, or a fetch
Memoized(cache, fetches) ==
    IF cache.cached
    THEN {[exc |-> "none", value |-> cache.value, reqs |-> <<>>]}
    ELSE fetches

\* the cache after the call: lru_cache keeps what the method returned
CacheAfter(cache, f) ==
    IF cache.cached THEN cache
    ELSE IF f.exc = "none" THEN Cached(f.value)
    ELSE cache

\* the cache after a category or tag was created, renamed or deleted: the
\* methods make no cache_clear() call
CacheAfterMutation(cache) == cache

GetCategoriesCalls == Memoized(cat_cache, ServiceFetches("getCategoryTreeDto2", srv_cats))

GetTagsCalls == Memoized(tag_cache, ServiceFetches("getTagsByFrequency", srv_tags))

get_categories ==
    \E f \in GetCategoriesCalls :
        /\ cat_cache' = CacheAfter(cat_cache, f)
        /\ cat_call' = CatCall("get_categories", "", 0, f.reqs, f.exc, 0)
        /\ UNCHANGED <<srv_cats, srv_next_cat, srv_tags, tag_cache, notCat>>

\* _get_category_by_id
HasCategory(listing, id) == \E c \in listing : c.id = id

CategoryById(listing, id) == CHOOSE c \in listing : c.id = id

\* _get_category_response: the POST to updateCategory.xevent; cat_id is the
\* <catId> of the answer, 0 when the answer holds none
category_response_exc(cat_id) == IF cat_id = 0 THEN "RuntimeError" ELSE "none"

UpdateCategoryUrl == os_path_join(MINT_ROOT_URL, <<"updateCategory.xevent">>)

PostReq(url, task) == Req("post", url, OkResponse, task)

create_category ==
    \E name \in CatNames, parent_category_id \in CatIds, f \in GetCategoriesCalls,
       accepted \in BOOLEAN :
        LET cache1 == CacheAfter(cat_cache, f)
            found  == f.exc = "none" /\ HasCategory(f.value, parent_category_id)
            parent == CategoryById(f.value, parent_category_id)
            done(reqs, exc, ret) ==
                cat_call' = CatCall("create_category", name, parent_category_id,
                                    reqs, exc, ret)
            idle   == UNCHANGED <<srv_cats, srv_next_cat>>
        IN  /\ UNCHANGED <<srv_tags, tag_cache, notCat>>
            /\ IF f.exc # "none"
               THEN cat_cache' = cache1 /\ done(f.reqs, f.exc, 0) /\ idle
               ELSE IF ~found \/ parent.depth # 1
               THEN cat_cache' = cache1 /\ done(f.reqs, "RuntimeError", 0) /\ idle
               ELSE IF ~accepted \/ srv_next_cat >= UserCategoryMinId + MaxUserCats
               THEN /\ cat_cache' = cache1
                    /\ done(Append(f.reqs, PostReq(UpdateCategoryUrl, "C")),
                            category_response_exc(0), 0)
                    /\ idle
               ELSE /\ srv_cats' = srv_cats \cup
                            {Category(srv_next_cat, name, parent_category_id, 2)}
                    /\ srv_next_cat' = srv_next_cat + 1
                    /\ cat_cache' = CacheAfterMutation(cache1)
                    /\ done(Append(f.reqs, PostReq(UpdateCategoryUrl, "C")),
                            category_response_exc(srv_next_cat), srv_next_cat)

IsUserCategoryAlways(category_id) == TRUE

\* the guard of rename_category and delete_category: they raise for
\* category_id < 10000
IsUserCategory(category_id) == ~(category_id < UserCategoryMinId)

rename_category ==
    \E category_id \in CatIds, name \in CatNames, f \in GetCategoriesCalls,
       accepted \in BOOLEAN :
        LET cache1 == CacheAfter(cat_cache, f)
            found  == f.exc = "none" /\ HasCategory(f.value, category_id)
            done(reqs, exc, ret) ==
                cat_call' = CatCall("rename_category", name, category_id, reqs, exc, ret)
            idle   == UNCHANGED <<srv_cats, srv_next_cat>>
        IN  /\ UNCHANGED <<srv_tags, tag_cache, notCat>>
            /\ IF f.exc # "none"
               THEN cat_cache' = cache1 /\ done(f.reqs, f.exc, 0) /\ idle
               ELSE IF ~found \/ ~IsUserCategory(category_id)
               THEN cat_cache' = cache1 /\ done(f.reqs, "RuntimeError", 0) /\ idle
               ELSE IF ~accepted \/ ~HasCategory(srv_cats, category_id)
               THEN /\ cat_cache' = cache1
                    /\ done(Append(f.reqs, PostReq(UpdateCategoryUrl, "U")),
                            category_response_exc(0), 0)
                    /\ idle
               ELSE /\ srv_cats' =
                            {IF c.id = category_id THEN [c EXCEPT !.name = name] ELSE c :
                                c \in srv_cats}
                    /\ UNCHANGED srv_next_cat
                    /\ cat_cache' = CacheAfterMutation(cache1)
                    /\ done(Append(f.reqs, PostReq(UpdateCategoryUrl, "U")),
                            category_response_exc(category_id), category_id)

delete_category ==
    \E category_id \in CatIds, f \in GetCategoriesCalls, accepted \in BOOLEAN :
        LET cache1 == CacheAfter(cat_cache, f)
            found  == f.exc = "none" /\ HasCategory(f.value, category_id)
            done(reqs, exc, ret) ==
                cat_call' = CatCall("delete_category", "", category_id, reqs, exc, ret)
            idle   == UNCHANGED <<srv_cats, srv_next_cat>>
        IN  /\ UNCHANGED <<srv_tags, tag_cache, notCat>>
            /\ IF f.exc # "none"
               THEN cat_cache' = cache1 /\ done(f.reqs, f.exc, 0) /\ idle
               ELSE IF ~found \/ ~IsUserCategory(category_id)
               THEN cat_cache' = cache1 /\ done(f.reqs, "RuntimeError", 0) /\ idle
               ELSE IF ~accepted \/ ~HasCategory(srv_cats, category_id)
               THEN /\ cat_cache' = cache1
                    /\ done(Append(f.reqs, PostReq(UpdateCategoryUrl, "D")),
                            category_response_exc(0), 0)
                    /\ idle
               ELSE /\ srv_cats' = {c \in srv_cats : c.id # category_id}
                    /\ UNCHANGED srv_next_cat
                    /\ cat_cache' = CacheAfterMutation(cache1)
                    /\ done(Append(f.reqs, PostReq(UpdateCategoryUrl, "D")),
                            category_response_exc(category_id), category_id)

\* c['parent']['name'] of a category of the listing
ParentName(listing, c) ==
    IF \E q \in listing : q.id = c.parentId
    THEN (CHOOSE q \in listing : q.id = c.parentId).name
    ELSE "Root"

\* parent_category_name arguments; "" stands for None
ParentNames == {"", "Auto", "Home"}

resolve_category_ignoring_parent(listing, name, parent) ==
    LET categories == {c \in listing : c.name = name}
    IN  IF Cardinality(categories) > 1
        THEN [exc |-> "RuntimeError", msg |-> "multiple", ids |-> {}]
        ELSE IF categories = {}
        THEN [exc |-> "RuntimeError", msg |-> "does not exist", ids |-> {}]
        ELSE [exc |-> "none", msg |-> "", ids |-> {c.id : c \in categories}]

\* category_name_to_id on a listing: the error it raises, or the ids it can
\* return (next() takes the first match in the order of the listing)
resolve_category(listing, name, parent) ==
    LET categories == {c \in listing : c.name = name}
        matching   == {c \in categories : parent = "" \/ ParentName(listing, c) = parent}
    IN  IF parent = "" /\ Cardinality(categories) > 1
        THEN [exc |-> "RuntimeError", msg |-> "multiple", ids |-> {}]
        ELSE IF matching = {}
        THEN [exc |-> "RuntimeError", msg |-> "does not exist", ids |-> {}]
        ELSE [exc |-> "none", msg |-> "", ids |-> {c.id : c \in matching}]

category_name_to_id ==
    \E name \in CatNames, parent \in ParentNames, f \in GetCategoriesCalls :
        LET res == resolve_category(f.value, name, parent)
            how(msg) == [parent |-> parent, msg |-> msg, listing |-> f.value]
        IN  /\ cat_cache' = CacheAfter(cat_cache, f)
            /\ UNCHANGED <<srv_cats, srv_next_cat, srv_tags, tag_cache, notCat>>
            /\ IF f.exc # "none"
               THEN cat_call' = CatCall("category_name_to_id", name, 0, f.reqs, f.exc, 0)
                                    @@ how("request")
               ELSE IF res.exc # "none"
               THEN cat_call' = CatCall("category_name_to_id", name, 0, f.reqs, res.exc, 0)
                                    @@ how(res.msg)
               ELSE \E id \in res.ids :
                        cat_call' = CatCall("category_name_to_id", name, 0, f.reqs,
                                            "none", id) @@ how("")

get_tags ==
    \E f \in GetTagsCalls :
        /\ tag_cache' = CacheAfter(tag_cache, f)
        /\ cat_call' = CatCall("get_tags", "", 0, f.reqs, f.exc, 0)
        /\ UNCHANGED <<srv_cats, srv_next_cat, srv_tags, cat_cache, notCat>>

tag_name_to_id ==
    \E name \in TagNames, f \in GetTagsCalls :
        /\ tag_cache' = CacheAfter(tag_cache, f)
        /\ cat_call' =
               IF f.exc # "none" THEN CatCall("tag_name_to_id", name, 0, f.reqs, f.exc, 0)
               ELSE IF name \notin f.value
               THEN CatCall("tag_name_to_id", name, 0, f.reqs, "RuntimeError", 0)
               ELSE CatCall("tag_name_to_id", name, 0, f.reqs, "none", TagId(name))
        /\ UNCHANGED <<srv_cats, srv_next_cat, srv_tags, cat_cache, notCat>>

UpdateTagUrl == os_path_join(MINT_ROOT_URL, <<"/", "updateTag.xevent">>)

\* create_tag: the name must be new; the POST goes to
\* os.path.join(_MINT_ROOT_URL, '/updateTag.xevent')
create_tag ==
    \E name \in TagNames, f \in GetTagsCalls, accepted \in BOOLEAN :
        LET cache1 == CacheAfter(tag_cache, f)
            done(reqs, exc, ret) == cat_call' = CatCall("create_tag", name, 0, reqs, exc, ret)
        IN  /\ UNCHANGED <<srv_cats, srv_next_cat, cat_cache, notCat>>
            /\ IF f.exc # "none"
               THEN tag_cache' = cache1 /\ done(f.reqs, f.exc, 0) /\ UNCHANGED srv_tags
               ELSE IF name \in f.value
               THEN tag_cache' = cache1 /\ done(f.reqs, "Exception", 0)
                    /\ UNCHANGED srv_tags
               ELSE IF ~HasScheme(UpdateTagUrl)
               THEN tag_cache' = cache1 /\ done(f.reqs, "MissingSchema", 0)
                    /\ UNCHANGED srv_tags
               ELSE IF ~accepted
               THEN /\ tag_cache' = cache1
                    /\ done(Append(f.reqs, PostReq(UpdateTagUrl, "C")), "RuntimeError", 0)
                    /\ UNCHANGED srv_tags
               ELSE /\ srv_tags' = srv_tags \cup {name}
                    /\ tag_cache' = CacheAfterMutation(cache1)
                    /\ done(Append(f.reqs, PostReq(UpdateTagUrl, "C")), "none", TagId(name))

\* what the service holds when the client starts: the categories it provides,
\* with or without a category the user made earlier
ServiceCategories ==
    {BaseCategories, BaseCategories \cup {Category(UserCategoryMinId, "A", 2, 2)}}

CatVarsAtRest ==
    /\ srv_next_cat = UserCategoryMinId + Cardinality(srv_cats \ BaseCategories)
    /\ cat_cache = NotCached
    /\ tag_cache = NotCached
    /\ cat_call = NoCatCall

InitCatVars ==
    /\ srv_cats \in ServiceCategories
    /\ srv_tags \in SUBSET TagNames
    /\ CatVarsAtRest

IdleCatVars == srv_cats = BaseCategories /\ srv_tags = {} /\ CatVarsAtRest

NextCat ==
    \/ get_categories
    \/ create_category
    \/ rename_category
    \/ delete_category
    \/ category_name_to_id
    \/ get_tags
    \/ tag_name_to_id
    \/ create_tag

(***************************************************************************)
(* Single transactions                                                     *)
(***************************************************************************)
Accounts == {"Cash", "Checking"}

TxnIds == 1..MaxTxns

\* the transaction of listSplitTransactions, as the service returns it
TxnRow(id, t) ==
    [id |-> id, date |-> <<"Feb", " ", "23">>, odate |-> <<"02", "/", "21", "/", "20">>,
     amount |-> StrVal(<<"$", "1", ".", "5", "0">>), isDebit |-> TRUE,
     isPending |-> t.isPending, account |-> t.account]

NoTrans == TxnRow(0, [isPending |-> FALSE, account |-> ""])

TxnCall(op, id, reqs, exc, ret, trans) ==
    [op |-> op, id |-> id, reqs |-> reqs, exc |-> exc, ret |-> ret, trans |-> trans]

NoTxnCall == TxnCall("none", 0, <<>>, "none", "None", NoTrans)

\* What the body of a listSplitTransactions answer holds: "split" (a parent and
\* children, the transaction asked for among them), "other" (a parent and
\* children without it) or "malformed" (no 'parent' or no 'children' key).
SplitPayloads == {"split", "other", "malformed"}

\* get_transaction_by_id(transaction_id, do_basic_cleaning=True): how it can end
Lookups(id) ==
    {LET q    == Req("json", "listSplitTransactions.xevent", r, payload)
         exc  == json_response_exc(r, TRUE)
         here == payload = "split" /\ srv_txns[id].exists
         row  == clean_transaction(TxnRow(id, srv_txns[id]), today_year)
         miss(e) == [exc |-> e, found |-> FALSE, trans |-> NoTrans, reqs |-> <<q>>]
     IN  IF exc # "none" THEN miss(exc)
         ELSE IF payload = "malformed" THEN miss("RuntimeError")
         ELSE IF ~here THEN miss("none")
         ELSE IF row.exc # "none" THEN miss(row.exc)
         ELSE [exc |-> "none", found |-> TRUE, trans |-> row.val, reqs |-> <<q>>] :
        r \in PlainResponses, payload \in SplitPayloads}

get_transaction_by_id ==
    \E id \in TxnIds : \E lk \in Lookups(id) :
        /\ txn_call' = TxnCall("get_transaction_by_id", id, lk.reqs, lk.exc,
                               IF lk.found THEN "trans" ELSE "None", lk.trans)
        /\ UNCHANGED <<srv_txns, notTxn>>

DeletableAlways(trans) == TRUE

\* the guard of delete_transaction: it goes on for a pending or a cash transaction
Deletable(trans) == ~(~trans.isPending /\ ~(trans.account = "Cash"))

delete_transaction ==
    \E id \in TxnIds : \E lk \in Lookups(id), r \in PlainResponses, deleted \in BOOLEAN :
        LET q == Req("json", "updateTransaction.xevent", r, "delete")
            done(reqs, exc, ret) ==
                txn_call' = TxnCall("delete_transaction", id, reqs, exc, ret, lk.trans)
        IN  /\ UNCHANGED notTxn
            /\ IF lk.exc # "none"
               THEN done(lk.reqs, lk.exc, "None") /\ UNCHANGED srv_txns
               ELSE IF ~lk.found
               THEN done(lk.reqs, "TypeError", "None") /\ UNCHANGED srv_txns
               ELSE IF ~Deletable(lk.trans)
               THEN done(lk.reqs, "RuntimeError", "None") /\ UNCHANGED srv_txns
               ELSE IF json_response_exc(r, TRUE) # "none"
               THEN /\ done(Append(lk.reqs, q), json_response_exc(r, TRUE), "None")
                    /\ UNCHANGED srv_txns
               ELSE IF ~deleted
               THEN done(Append(lk.reqs, q), "none", "False") /\ UNCHANGED srv_txns
               ELSE /\ done(Append(lk.reqs, q), "none", "True")
                    /\ srv_txns' = [srv_txns EXCEPT ![id].exists = FALSE]

InitTxnVars ==
    /\ srv_txns \in [TxnIds -> [exists : {TRUE}, isPending : BOOLEAN, account : Accounts]]
    /\ txn_call = NoTxnCall

IdleTxnVars ==
    /\ srv_txns = [i \in TxnIds |-> [exists |-> FALSE, isPending |-> FALSE,
                                     account |-> "Cash"]]
    /\ txn_call = NoTxnCall

NextTxn == get_transaction_by_id \/ delete_transaction

(***************************************************************************)
(* update_transaction and split_transaction                                *)
(***************************************************************************)
\* None where an int is expected, and where a str is expected
NoneInt == -1

NoneStr == "None"

EditTagNames == {"A", "B", "C"}

\* tags arguments: tag name -> membership wanted
TagEdits ==
    UNION {[D -> BOOLEAN] : D \in {S \in SUBSET EditTagNames : Cardinality(S) <= MaxTagEdits}}

\* transaction_id arguments: one id, or the list of all ids
IdLists == {{i} : i \in TxnIds} \cup {TxnIds}

EditCategoryIds == {NoneInt, 101, 999}

EditCategoryNames == {NoneStr, "A", "B"}

NoParams == [catId |-> NoneInt, category |-> NoneStr, tags |-> <<>>, groups |-> <<>>]

EditCall(op, ids, args, reqs, exc, ret, params, before) ==
    [op |-> op, ids |-> ids, args |-> args, reqs |-> reqs, exc |-> exc, ret |-> ret,
     params |-> params, before |-> before]

validate_category_unchecked(f, category_id, category_name) ==
    LET out(exc, id, name, used) == [exc |-> exc, id |-> id, name |-> name, used |-> used]
    IN  IF category_id = NoneInt /\ category_name = NoneStr
        THEN out("none", NoneInt, NoneStr, FALSE)
        ELSE out("none", category_id, category_name, FALSE)

\* _validate_category with the outcome f of its get_categories call: `used`
\* tells whether get_categories was called at all
validate_category(f, category_id, category_name) ==
    LET by_name == (category_id = NoneInt \/ category_id = 0) /\ category_name # NoneStr
        res     == resolve_category(f.value, category_name, "")
        id1     == IF by_name THEN CHOOSE i \in res.ids : TRUE ELSE category_id
        out(exc, id, name, used) == [exc |-> exc, id |-> id, name |-> name, used |-> used]
    IN  IF category_id = NoneInt /\ category_name = NoneStr
        THEN out("none", NoneInt, NoneStr, FALSE)
        ELSE IF f.exc # "none" THEN out(f.exc, NoneInt, NoneStr, TRUE)
        ELSE IF by_name /\ res.exc # "none" THEN out(res.exc, NoneInt, NoneStr, TRUE)
        ELSE IF ~HasCategory(f.value, id1) THEN out("ValueError", NoneInt, NoneStr, TRUE)
        ELSE out("none", id1, CategoryById(f.value, id1).name, TRUE)

SentIfTruthy(v) == v # NoneInt /\ v # 0

\* params = {k: v for k, v in data.items() if v is not None}
Sent(v) == v # NoneInt

\* the service applies the tag fields of an edit to the tags of a transaction
TagsAfter(old, tag_fields) ==
    {n \in EditTagNames :
        IF TagId(n) \in DOMAIN tag_fields THEN tag_fields[TagId(n)] = 2 ELSE n \in old}

update_transaction ==
    /\ edit_call.op = "none"
    /\ \E ids \in IdLists, category_id \in EditCategoryIds,
          category_name \in EditCategoryNames, tags \in TagEdits,
          fc \in GetCategoriesCalls, ft \in GetTagsCalls,
          r \in PlainResponses, accepted \in BOOLEAN :
        LET cat   == validate_category(fc, category_id, category_name)
            reqs1 == IF cat.used THEN fc.reqs ELSE <<>>
            uses_tags == DOMAIN tags # {}
            reqs2 == IF uses_tags THEN reqs1 \o ft.reqs ELSE reqs1
            tag_exc == IF ft.exc # "none" THEN ft.exc
                       ELSE IF \E t \in DOMAIN tags : t \notin ft.value THEN "RuntimeError"
                       ELSE "none"
            data_tags == [i \in {TagId(t) : t \in DOMAIN tags} |->
                             LET t == CHOOSE t \in DOMAIN tags : TagId(t) = i
                             IN  IF tags[t] THEN 2 ELSE 0]
            tag_fields == [i \in {i \in DOMAIN data_tags : Sent(data_tags[i])} |->
                              data_tags[i]]
            params == [catId |-> cat.id, category |-> cat.name, tags |-> tag_fields,
                       groups |-> <<>>]
            q     == Req("json", "updateTransaction.xevent", r, "txnedit")
            args  == [category_id |-> category_id, category_name |-> category_name,
                      tags |-> tags, parts |-> <<>>]
            done(reqs, exc, ret, ps) ==
                edit_call' = EditCall("update_transaction", ids, args, reqs, exc, ret, ps,
                                      srv_txn_tags)
        IN  /\ UNCHANGED notEdit
            /\ cat_cache' = IF cat.used THEN CacheAfter(cat_cache, fc) ELSE cat_cache
            /\ IF cat.exc # "none"
               THEN /\ done(reqs1, cat.exc, "None", NoParams)
                    /\ UNCHANGED <<tag_cache, srv_txn_tags>>
               ELSE /\ tag_cache' = IF uses_tags THEN CacheAfter(tag_cache, ft)
                                    ELSE tag_cache
                    /\ IF uses_tags /\ tag_exc # "none"
                       THEN done(reqs2, tag_exc, "None", NoParams)
                            /\ UNCHANGED srv_txn_tags
                       ELSE IF json_response_exc(r, TRUE) # "none"
                       THEN done(Append(reqs2, q), json_response_exc(r, TRUE), "None",
                                 params)
                            /\ UNCHANGED srv_txn_tags
                       ELSE IF ~accepted
                       THEN done(Append(reqs2, q), "none", "False", params)
                            /\ UNCHANGED srv_txn_tags
                       ELSE /\ done(Append(reqs2, q), "none", "True", params)
                            /\ srv_txn_tags' =
                                   [i \in TxnIds |->
                                       IF i \in ids
                                       THEN TagsAfter(srv_txn_tags[i], tag_fields)
                                       ELSE srv_txn_tags[i]]

\* the parts of a split: amount, category_id, category_name, merchant
PartCategories == {<<NoneInt, "B">>, <<101, NoneStr>>, <<NoneInt, NoneStr>>, <<NoneInt, "A">>}

Parts ==
    {[amount |-> a, category_id |-> c[1], category_name |-> c[2], merchant |-> "m"] :
        a \in {10, 26}, c \in PartCategories}

PartLists == UNION {[1..n -> Parts] : n \in 0..MaxParts}

SplitGroupsWithRemainder(parts, cats) ==
    [k \in 1..Len(parts) |->
        [idx |-> k - 1, amount |-> parts[k].amount, percentAmount |-> parts[k].amount,
         category |-> cats[k].name, categoryId |-> cats[k].id,
         merchant |-> parts[k].merchant, txnId |-> 0]]
      \o <<[idx |-> Len(parts), amount |-> 0, percentAmount |-> 0, category |-> NoneStr,
            categoryId |-> NoneInt, merchant |-> "", txnId |-> 0]>>

\* the indexed fields split_transaction puts into params, one group for each part
SplitGroups(parts, cats) ==
    [k \in 1..Len(parts) |->
        [idx |-> k - 1, amount |-> parts[k].amount, percentAmount |-> parts[k].amount,
         category |-> cats[k].name, categoryId |-> cats[k].id,
         merchant |-> parts[k].merchant, txnId |-> 0]]

split_transaction ==
    /\ edit_call.op = "none"
    /\ \E id \in TxnIds, parts \in PartLists, fc \in GetCategoriesCalls :
        LET cats   == [k \in 1..Len(parts) |->
                          validate_category(fc, parts[k].category_id,
                                            parts[k].category_name)]
            bad(k) == cats[k].exc # "none" \/ cats[k].id = NoneInt
            stop   == IF \E k \in 1..Len(parts) : bad(k)
                      THEN CHOOSE k \in 1..Len(parts) :
                               bad(k) /\ \A j \in 1..(k - 1) : ~bad(j)
                      ELSE Len(parts)
            used   == \E k \in 1..stop : cats[k].used
            reqs1  == IF used THEN fc.reqs ELSE <<>>
            params == [catId |-> NoneInt, category |-> NoneStr, tags |-> <<>>,
                       groups |-> SplitGroups(parts, cats)]
            args   == [category_id |-> NoneInt, category_name |-> NoneStr,
                       tags |-> <<>>, parts |-> parts]
            done(reqs, exc, ret, ps) ==
                edit_call' = EditCall("split_transaction", {id}, args, reqs, exc, ret, ps,
                                      srv_txn_tags)
        IN  /\ UNCHANGED <<notEdit, tag_cache, srv_txn_tags>>
            /\ cat_cache' = IF used THEN CacheAfter(cat_cache, fc) ELSE cat_cache
            /\ IF \E k \in 1..Len(parts) : bad(k)
               THEN done(reqs1, IF cats[stop].exc # "none" THEN cats[stop].exc
                                ELSE "ValueError", "None", NoParams)
               ELSE \E r \in PlainResponses, is_split \in BOOLEAN :
                    LET q1 == Req("json", "updateTransaction.xevent", r, "split")
                    IN  IF json_response_exc(r, TRUE) # "none"
                        THEN done(Append(reqs1, q1), json_response_exc(r, TRUE), "None",
                                  params)
                        ELSE IF ~is_split
                        THEN done(Append(reqs1, q1), "RuntimeError", "None", params)
                        ELSE \E r2 \in PlainResponses :
                             LET q2 == Req("json", "listSplitTransactions.xevent", r2,
                                           "split")
                             IN  done(reqs1 \o <<q1, q2>>, json_response_exc(r2, TRUE),
                                      IF json_response_exc(r2, TRUE) = "none"
                                      THEN "trans" ELSE "None", params)

NoEditCall ==
    EditCall("none", {}, [category_id |-> NoneInt, category_name |-> NoneStr,
                          tags |-> <<>>, parts |-> <<>>], <<>>, "none", "None", NoParams,
             [i \in TxnIds |-> {}])

InitEditVars ==
    /\ srv_txn_tags \in {[i \in TxnIds |-> tags] : tags \in {{}, {"A", "B"}}}
    /\ edit_call = NoEditCall

IdleEditVars ==
    /\ srv_txn_tags = [i \in TxnIds |-> {}]
    /\ edit_call = NoEditCall

NextEdit ==
    \/ update_transaction
    \/ split_transaction

(***************************************************************************)
(* wait_for_code_via_http: the calling thread runs socketserver's           *)
(* serve_forever loop and the handler; the Timer thread calls shutdown().   *)
(***************************************************************************)
\* getattr(server, 'received_code', None) of an attribute that was never set
NoAttr == "None"

\* requests a client may send: the method, whether the path holds url_keyword,
\* and the query part of the path
Requests == [method : {"GET", "POST"}, keyword : BOOLEAN, query : {"", "123456"}]

\* a connection: the request its client sends, and whether it has sent it
Connections == [req : Requests, sent : BOOLEAN]

\* Handler.do_GET, and BaseHTTPRequestHandler's answer to a method it lacks:
\* the status sent, whether the code is stored and the serving is stopped
HandlerGetOnlyForgotten(req) ==
    IF ~req.keyword THEN [status |-> 404, store |-> FALSE]
    ELSE [status |-> 200, store |-> TRUE]

Handler(req) ==
    IF req.method # "GET" THEN [status |-> 501, store |-> FALSE]
    ELSE IF ~req.keyword THEN [status |-> 404, store |-> FALSE]
    ELSE [status |-> 200, store |-> TRUE]

\* `if timeout: Timer(...).start()`, then serve_forever clears the event
HttpStart ==
    /\ h_pc = "start"
    /\ timer_pc' = IF h_timeout THEN "waiting" ELSE "none"
    /\ h_pc' = "loop"
    /\ UNCHANGED <<h_timeout, shutdown_request, is_shut_down, backlog, conn, n_conns,
                   received_code, h_log, h_ret, notHttp>>

\* serve_forever: `while not self.__shutdown_request`
ServeLoop ==
    /\ h_pc = "loop"
    /\ h_pc' = IF shutdown_request THEN "exit" ELSE "select"
    /\ UNCHANGED <<h_timeout, timer_pc, shutdown_request, is_shut_down, backlog, conn,
                   n_conns, received_code, h_log, h_ret, notHttp>>

\* serve_forever: select(poll_interval), the shutdown check after it, and the
\* accept of a connection that is ready
ServeSelect ==
    /\ h_pc = "select"
    /\ IF shutdown_request THEN h_pc' = "exit" /\ UNCHANGED <<backlog, conn>>
       ELSE IF backlog # <<>>
       THEN h_pc' = "handle" /\ conn' = <<Head(backlog)>> /\ backlog' = Tail(backlog)
       ELSE h_pc' = "loop" /\ UNCHANGED <<backlog, conn>>
    /\ UNCHANGED <<h_timeout, timer_pc, shutdown_request, is_shut_down, n_conns,
                   received_code, h_log, h_ret, notHttp>>

\* the handler, run in the calling thread: it reads the request line (and
\* blocks until the client has sent it), answers, and the connection is closed
ServeHandle ==
    /\ h_pc = "handle"
    /\ conn[1].sent
    /\ LET out == Handler(conn[1].req)
       IN  /\ h_log' = Append(h_log, [req |-> conn[1].req, status |-> out.status])
           /\ received_code' = IF out.store THEN conn[1].req.query ELSE received_code
           /\ shutdown_request' = IF out.store THEN TRUE ELSE shutdown_request
    /\ conn' = <<>>
    /\ h_pc' = "loop"
    /\ UNCHANGED <<h_timeout, timer_pc, is_shut_down, backlog, n_conns, h_ret, notHttp>>

\* serve_forever, finally: the flag is reset and the event is set
ServeExit ==
    /\ h_pc = "exit"
    /\ shutdown_request' = FALSE
    /\ is_shut_down' = TRUE
    /\ h_pc' = "finally"
    /\ UNCHANGED <<h_timeout, timer_pc, backlog, conn, n_conns, received_code, h_log,
                   h_ret, notHttp>>

\* wait_for_code_via_http, finally: server.shutdown() sets the flag ...
HttpShutdown ==
    /\ h_pc = "finally"
    /\ shutdown_request' = TRUE
    /\ h_pc' = "closing"
    /\ UNCHANGED <<h_timeout, timer_pc, is_shut_down, backlog, conn, n_conns,
                   received_code, h_log, h_ret, notHttp>>

\* ... and waits for the event; then the socket is closed and the code returned
HttpReturn ==
    /\ h_pc = "closing"
    /\ is_shut_down
    /\ h_ret' = received_code
    /\ backlog' = <<>>
    /\ h_pc' = "returned"
    /\ UNCHANGED <<h_timeout, timer_pc, shutdown_request, is_shut_down, conn, n_conns,
                   received_code, h_log, notHttp>>

\* the Timer thread, timeout_kill_server: server.shutdown() sets the flag ...
TimerFire ==
    /\ timer_pc = "waiting"
    /\ shutdown_request' = TRUE
    /\ timer_pc' = "shutdown"
    /\ UNCHANGED <<h_timeout, h_pc, is_shut_down, backlog, conn, n_conns, received_code,
                   h_log, h_ret, notHttp>>

\* ... and waits for the event
TimerDone ==
    /\ timer_pc = "shutdown"
    /\ is_shut_down
    /\ timer_pc' = "done"
    /\ UNCHANGED <<h_timeout, h_pc, shutdown_request, is_shut_down, backlog, conn,
                   n_conns, received_code, h_log, h_ret, notHttp>>

\* a client connects to the listening socket, with its request sent or not yet
ClientConnect ==
    /\ h_pc \notin {"start", "returned"}
    /\ n_conns < MaxConns
    /\ \E c \in Connections : backlog' = Append(backlog, c)
    /\ n_conns' = n_conns + 1
    /\ UNCHANGED <<h_timeout, h_pc, timer_pc, shutdown_request, is_shut_down, conn,
                   received_code, h_log, h_ret, notHttp>>

\* the client of the connection being served sends its request
ClientSend ==
    /\ conn # <<>>
    /\ ~conn[1].sent
    /\ conn' = <<[conn[1] EXCEPT !.sent = TRUE]>>
    /\ UNCHANGED <<h_timeout, h_pc, timer_pc, shutdown_request, is_shut_down, backlog,
                   n_conns, received_code, h_log, h_ret, notHttp>>

HttpAtRest ==
    /\ h_pc = "start"
    /\ timer_pc = "none"
    /\ shutdown_request = FALSE
    /\ is_shut_down = FALSE
    /\ backlog = <<>>
    /\ conn = <<>>
    /\ n_conns = 0
    /\ received_code = NoAttr
    /\ h_log = <<>>
    /\ h_ret = NoAttr

InitHttpVars == h_timeout \in BOOLEAN /\ HttpAtRest

IdleHttpVars == h_timeout = FALSE /\ HttpAtRest

\* the steps of the calling thread, and of the Timer thread
MainThread ==
    \/ HttpStart
    \/ ServeLoop
    \/ ServeSelect
    \/ ServeHandle
    \/ ServeExit
    \/ HttpShutdown
    \/ HttpReturn

TimerThread == TimerFire \/ TimerDone

NextHttp ==
    \/ HttpStart
    \/ ServeLoop
    \/ ServeSelect
    \/ ServeHandle
    \/ ServeExit
    \/ HttpShutdown
    \/ HttpReturn
    \/ TimerFire
    \/ TimerDone
    \/ ClientConnect
    \/ ClientSend

(***************************************************************************)
(* Specifications                                                          *)
(***************************************************************************)
InitClean ==
    InitCleanVars /\ IdlePageVars /\ IdleSessVars /\ IdleCatVars /\ IdleTxnVars
    /\ IdleEditVars /\ IdleHttpVars

SpecClean == InitClean /\ [][NextClean]_vars

InitPage ==
    IdleCleanVars /\ InitPageVars /\ IdleSessVars /\ IdleCatVars /\ IdleTxnVars
    /\ IdleEditVars /\ IdleHttpVars

SpecPage == InitPage /\ [][NextPage]_vars

Init ==
    IdleCleanVars /\ IdlePageVars /\ IdleSessVars /\ IdleCatVars /\ IdleTxnVars
    /\ IdleEditVars /\ IdleHttpVars

Next == NextSession

Spec == Init /\ [][Next]_vars

InitLogin ==
    IdleCleanVars /\ IdlePageVars /\ InitSessVars /\ IdleCatVars /\ IdleTxnVars
    /\ IdleEditVars /\ IdleHttpVars

SpecLogin == InitLogin /\ [][NextLogin]_vars

InitCat ==
    IdleCleanVars /\ IdlePageVars /\ IdleSessVars /\ InitCatVars /\ IdleTxnVars
    /\ IdleEditVars /\ IdleHttpVars

SpecCat == InitCat /\ [][NextCat]_vars

InitTxn ==
    IdleCleanVars /\ IdlePageVars /\ IdleSessVars /\ IdleCatVars /\ InitTxnVars
    /\ IdleEditVars /\ IdleHttpVars

SpecTxn == InitTxn /\ [][NextTxn]_vars

InitEdit ==
    /\ IdleCleanVars /\ IdlePageVars /\ IdleSessVars /\ IdleTxnVars
    /\ srv_cats \in ServiceCategories
    /\ srv_tags \in {{"A", "B"}, EditTagNames}
    /\ srv_next_cat = UserCategoryMinId + Cardinality(srv_cats \ BaseCategories)
    /\ cat_cache \in {NotCached, Cached(srv_cats)}
    /\ tag_cache \in {NotCached, Cached(srv_tags)}
    /\ cat_call = NoCatCall
    /\ InitEditVars
    /\ IdleHttpVars

InitHttp ==
    /\ IdleCleanVars /\ IdlePageVars /\ IdleSessVars /\ IdleCatVars /\ IdleTxnVars
    /\ IdleEditVars /\ InitHttpVars

\* both threads keep running; clients do what they like
SpecHttp ==
    InitHttp /\ [][NextHttp]_vars /\ WF_vars(MainThread) /\ WF_vars(TimerThread)

\* one edit, made with the listings memoized (by earlier get_categories /
\* get_tags calls) or not
SpecEdit == InitEdit /\ [][NextEdit]_vars

(***************************************************************************)
(* Properties                                                              *)
(***************************************************************************)
RECURSIVE RowsBefore(_, _)
RowsBefore(reqs, i) == IF i <= 1 THEN 0 ELSE RowsBefore(reqs, i - 1) + reqs[i - 1].rows

ExamplePages == <<100, 100, 37, 0>>

\* C1: the generator requests the first page at the caller's offset and every
\* later page at the previous offset plus the rows the previous page returned;
\* the rows of the pages are yielded once each and in order; no request follows
\* a page of zero rows; on the worked example (pages of 100, 100, 37 and 0 rows)
\* it yields 237 rows with 4 requests.
C1_Pagination ==
    /\ \A i \in 1..Len(page_reqs) :
           page_reqs[i].offset = gt_args.offset + RowsBefore(page_reqs, i)
    /\ \A i \in 1..(Len(page_reqs) - 1) : page_reqs[i].rows > 0
    /\ \A k \in 1..Len(gt_result) : gt_result[k].id = gt_args.offset + k - 1
    /\ \A k \in 1..Len(gen_buf) : gen_buf[k].id = gt_args.offset + Len(gt_result) + k - 1
    /\ gen_pc \in {"fetch", "yield", "done"} =>
           Len(gt_result) + Len(gen_buf) = RowsBefore(page_reqs, Len(page_reqs) + 1)
    /\ gen_pc = "done" =>
           /\ page_reqs # <<>>
           /\ page_reqs[Len(page_reqs)].rows = 0
           /\ gen_buf = <<>>
    /\ (gen_pc = "done" /\ gt_args.offset = 0
            /\ srv_rows = ExampleService.rows /\ srv_page = ExampleService.page) =>
           /\ Len(gt_result) = 237
           /\ [i \in 1..Len(page_reqs) |-> page_reqs[i].rows] = ExamplePages

C1_Witness ==
    /\ srv_rows = ExampleService.rows /\ srv_page = ExampleService.page
    /\ gt_pc = "returned" /\ gen_pc = "done" /\ gt_args.offset = 0
    /\ Len(gt_result) = 237 /\ Len(page_reqs) = 4

\* C7 (as claimed): cleaning a record that was cleaned before completes without
\* error and leaves the record as it was.
C7_CleanIdempotent ==
    (cl_calls >= 2 /\ cl_prev_exc = "none") => (cl_exc = "none" /\ cl_txn = cl_prev)

NamedSortFields == {"date", "amount", "merchant", "category"}

\* C9 (as claimed): each of the sort fields date, amount, merchant, category is
\* accepted in both directions, and the eight combinations have eight sort codes.
C9_EightSortCodes ==
    /\ (gt_pc # "idle" /\ gt_args.sort_field \in NamedSortFields) => gt_exc # "ValueError"
    /\ \A f1 \in NamedSortFields, f2 \in NamedSortFields, a1 \in BOOLEAN, a2 \in BOOLEAN :
           (<<f1, a1>> # <<f2, a2>> /\ ~comparableType(f1, a1).none
                /\ ~comparableType(f2, a2).none)
               => comparableType(f1, a1).code # comparableType(f2, a2).code

\* the sort codes the service knows, for the pairs get_transactions supports
SortCodeOf(f, a) ==
    CASE f = "date" /\ a -> 4
      [] f = "date" /\ ~a -> 8
      [] f = "amount" /\ a -> 7
      [] f = "amount" /\ ~a -> 3
      [] f = "merchant" /\ a -> 1
      [] f = "merchant" /\ ~a -> 5
      [] f = "category" /\ a -> 6
      [] OTHER -> 0

\* C10: a call of get_transactions either sends, in every request, the one sort
\* code of its (sort_field, sort_ascending) pair, or, the pair being unsupported,
\* raises ValueError with no request sent and no generator made; no pair without
\* a sort code reaches the service.
C10_SortCodeOrError ==
    gt_pc # "idle" =>
        LET f == gt_args.sort_field
            a == gt_args.sort_ascending
        IN  IF SortCodeOf(f, a) = 0
            THEN gt_exc = "ValueError" /\ page_reqs = <<>> /\ gen_pc = "none"
            ELSE /\ gt_exc # "ValueError"
                 /\ \A i \in 1..Len(page_reqs) :
                        page_reqs[i].comparableType = SortCodeOf(f, a)

C10_Witness ==
    \/ gt_pc = "raised" /\ gt_exc = "ValueError" /\ gt_args.sort_field = "account"
    \/ gt_pc = "returned" /\ Len(page_reqs) >= 2 /\ gt_args.sort_field = "amount"
           /\ page_reqs[2].comparableType = 3

\* a response that tells of an expired session: by its status code, or by the
\* text 'session has expired' in its body
IndicatesExpiry(r) == r.status = 401 \/ r.expired_text

\* a response with a bad status code, or of the wrong content type where JSON is expected
Rejected(op, r) ==
    r.status # 200 \/ (~r.json_ctype /\ op # "change_transaction_page_limit")

ResourceCalls ==
    {"change_transaction_page_limit", "is_logged_in", "get_accounts",
     "get_financial_providers"}

\* C2 (as claimed): a resource call (legacy JSON, bundled service, or REST-style
\* provider call) whose response tells of an expired session raises
\* MintSessionExpiredException; a rejected response that does not tell of expiry
\* raises another error.
C2_ExpiryRaisesDistinctError ==
    (last_call.op \in ResourceCalls /\ last_call.reqs # <<>>) =>
        LET r == last_call.reqs[1].resp
        IN  /\ IndicatesExpiry(r) => last_call.exc = "MintSessionExpiredException"
            /\ (Rejected(last_call.op, r) /\ ~IndicatesExpiry(r)) =>
                   last_call.exc \notin {"none", "MintSessionExpiredException"}

\* the probe of a cached session validates it
ProbeValidates(q) ==
    /\ q.resp.status = 200 /\ q.resp.json_ctype /\ q.resp.parses
    /\ HasRefreshingKey(q.payload)

\* C3 (as claimed): cached_login with a matching cache file (the probe is sent)
\* returns without the interactive login if the probe validates the session, and
\* otherwise, whatever the failing response, runs the interactive login and,
\* that done, writes the new session to the cache.
C3_ProbeFailureFallsThrough ==
    (last_call.op = "cached_login" /\ last_call.reqs # <<>>) =>
        IF ProbeValidates(last_call.reqs[1])
        THEN last_call.login = "no" /\ last_call.exc = "none"
        ELSE /\ last_call.login # "no"
             /\ last_call.login = "ok" =>
                    /\ cache_file.exists
                    /\ cache_file.js_token = js_token
                    /\ cache_file.cookies = Cookies

\* C5 (as claimed): after a REST-style provider call the session holds exactly the
\* cookies it held before the call.
C5_ProviderCallKeepsCookies ==
    last_call.op = "get_financial_providers" => Cookies = pre_cookies

\* C8 (as claimed): refresh_accounts, when it returns, has polled the status
\* endpoint, and returns None only if the refresh is still running (timed out).
C8_RefreshWaitsForCompletion ==
    [][(RefreshAccounts /\ last_call'.exc = "none") =>
            /\ \E i \in 1..Len(last_call'.reqs) :
                   last_call'.reqs[i].url = "userStatus.xevent"
            /\ ~srv_refreshing' => last_call'.ret # "None"]_vars

CategoryMutations == {"create_category", "rename_category", "delete_category"}

\* C4 (as claimed): after a successful create_category, rename_category,
\* delete_category or create_tag the memoized listing is invalidated, so the next
\* get_categories / get_tags call fetches the listing again.
C4_MutationInvalidatesCache ==
    /\ (cat_call.op \in CategoryMutations /\ cat_call.exc = "none") => ~cat_cache.cached
    /\ (cat_call.op = "create_tag" /\ cat_call.exc = "none") => ~tag_cache.cached

\* the transaction delete_transaction was last called for, as the service holds it
Target == srv_txns[txn_call.id]

NeitherPendingNorCash(t) == ~t.isPending /\ t.account # "Cash"

DeleteRequestSent ==
    \E i \in 1..Len(txn_call.reqs) : txn_call.reqs[i].url = "updateTransaction.xevent"

C11_CategoryNameResolution ==
    (cat_call.op = "category_name_to_id" /\ cat_call.msg # "request") =>
        LET same  == {c \in cat_call.listing : c.name = cat_call.name}
            under == {c \in same : ParentName(cat_call.listing, c) = cat_call.parent}
        IN  /\ (cat_call.parent = "" /\ Cardinality(same) >= 2) =>
                   cat_call.exc # "none" /\ cat_call.msg = "multiple"
            /\ (cat_call.parent # "" /\ under # {}) =>
                   cat_call.exc = "none" /\ cat_call.ret \in {c.id : c \in under}
            /\ (same = {} \/ (cat_call.parent # "" /\ under = {})) =>
                   cat_call.exc # "none" /\ cat_call.msg = "does not exist"

\* a name two categories under different parents have, resolved with a parent name
C11_Witness ==
    /\ cat_call.op = "category_name_to_id"
    /\ cat_call.exc = "none"
    /\ cat_call.parent = "Home"
    /\ \E c, d \in cat_call.listing :
           /\ c.name = cat_call.name /\ d.name = cat_call.name
           /\ c.parentId = 1 /\ d.parentId = 2 /\ d.id = cat_call.ret

\* the updateCategory.xevent POST of the last category operation was sent
CategoryRequestSent ==
    \E i \in 1..Len(cat_call.reqs) : cat_call.reqs[i].kind = "post"

\* the category of the listing the last category operation was called with
Listed(id) == {c \in (IF cat_cache.cached THEN cat_cache.value ELSE {}) : c.id = id}

UnresolvedCategoryName ==
    /\ edit_call.args.category_id = NoneInt
    /\ edit_call.args.category_name # NoneStr
    /\ Cardinality({c \in srv_cats : c.name = edit_call.args.category_name}) # 1

UnresolvedCategoryId ==
    /\ edit_call.args.category_id # NoneInt
    /\ ~HasCategory(srv_cats, edit_call.args.category_id)

UnresolvedTag == \E t \in DOMAIN edit_call.args.tags : t \notin srv_tags

UpdateRequestSent ==
    \E i \in 1..Len(edit_call.reqs) : edit_call.reqs[i].url = "updateTransaction.xevent"

C13_TagMerge ==
    (edit_call.op = "update_transaction" /\ edit_call.ret = "True") =>
        /\ \A i \in TxnIds, n \in EditTagNames :
               n \in srv_txn_tags[i] <=>
                   IF i \in edit_call.ids /\ n \in DOMAIN edit_call.args.tags
                   THEN edit_call.args.tags[n]
                   ELSE n \in edit_call.before[i]
        /\ DOMAIN edit_call.params.tags = {TagId(t) : t \in DOMAIN edit_call.args.tags}

\* tags {A, B} edited with {B: false, C: true} are {A, C}
C13_Witness ==
    /\ edit_call.op = "update_transaction" /\ edit_call.ret = "True"
    /\ \E i \in edit_call.ids :
           /\ edit_call.before[i] = {"A", "B"}
           /\ DOMAIN edit_call.args.tags = {"B", "C"}
           /\ ~edit_call.args.tags["B"] /\ edit_call.args.tags["C"]
           /\ srv_txn_tags[i] = {"A", "C"}

\* a part of the last split whose category the listing does not resolve
UnresolvedPart(part) ==
    \/ part.category_id = NoneInt /\ part.category_name = NoneStr
    \/ /\ part.category_id = NoneInt /\ part.category_name # NoneStr
       /\ Cardinality({c \in srv_cats : c.name = part.category_name}) # 1
    \/ part.category_id # NoneInt /\ ~HasCategory(srv_cats, part.category_id)

\* C19: split_transaction sends at most one split request; the request carries one
\* indexed group for each part, in the order and with the amounts given, and no
\* other group, whatever the amounts sum to (none for an empty list); with a
\* part whose category cannot be resolved it raises and sends no split request.
C19_SplitPassThrough ==
    edit_call.op = "split_transaction" =>
        LET parts == edit_call.args.parts
            sent  == {i \in 1..Len(edit_call.reqs) :
                         edit_call.reqs[i].url = "updateTransaction.xevent"}
        IN  /\ Cardinality(sent) <= 1
            /\ (\E k \in 1..Len(parts) : UnresolvedPart(parts[k])) =>
                   edit_call.exc # "none" /\ sent = {}
            /\ sent # {} =>
                   /\ Len(edit_call.params.groups) = Len(parts)
                   /\ \A k \in 1..Len(parts) :
                          LET g == edit_call.params.groups[k]
                          IN  /\ g.idx = k - 1
                              /\ g.amount = parts[k].amount
                              /\ g.merchant = parts[k].merchant
                              /\ HasCategory(srv_cats, g.categoryId)
                              /\ g.category = CategoryById(srv_cats, g.categoryId).name

\* two parts that do not sum to the amount of the transaction (36) were sent as given
C19_Witness ==
    /\ edit_call.op = "split_transaction"
    /\ edit_call.exc = "none"
    /\ Len(edit_call.args.parts) = 2
    /\ edit_call.args.parts[1].amount + edit_call.args.parts[2].amount # 36
    /\ Len(edit_call.params.groups) = 2

\* C14: a cached_login call that finds a cache file of another version or another
\* email sends no probe and runs the interactive login; if that login fails the
\* session has the cookies it had and the token it had or none (nothing of the
\* cache file is loaded), and if it succeeds the cache file is written anew.
C14_MismatchedCacheIgnored ==
    [][(CachedLogin /\ cache_file.exists
            /\ (cache_file.version # CACHE_VERSION
                    \/ cache_file.email # last_call'.email)) =>
            /\ last_call'.reqs = <<>>
            /\ last_call'.login # "no"
            /\ last_call'.login = "failed" =>
                   (js_token' \in {js_token, "None"} /\ Cookies' = Cookies)
            /\ last_call'.login = "ok" => cache_file'.email = last_call'.email]_vars

\* cached_login was called with a cache file written for another email or by
\* another version, and the login it ran failed
C14_Witness ==
    /\ last_call.op = "cached_login"
    /\ last_call.login = "failed"
    /\ cache_file.exists
    /\ cache_file.version # CACHE_VERSION
    /\ cache_file.email = last_call.email
    /\ cache_file.js_token # js_token

\* C18: a bundled-service call sends one request, with an id of its own in it, and
\* returns the payload the response map holds under that id; with the id absent
\* from the map it raises RuntimeError, not MintSessionExpiredException; it sends
\* no second request and leaves the caller's dict as it was.
C18_ServiceResponseById ==
    last_call.op = "get_accounts" =>
        /\ Len(last_call.reqs) = 1
        /\ last_call.data = AccountsRequest
        /\ DOMAIN last_call.sent = DOMAIN AccountsRequest \cup {"id"}
        /\ json_response_exc(last_call.reqs[1].resp, TRUE) = "none" =>
               IF last_call.sent.id \in last_call.keys
               THEN last_call.exc = "none" /\ last_call.ret = last_call.sent.id
               ELSE last_call.exc = "RuntimeError"

\* the response map holds another id than the one sent
C18_Witness ==
    /\ last_call.op = "get_accounts"
    /\ last_call.reqs[1].resp = OkResponse
    /\ last_call.keys # {}
    /\ last_call.sent.id \notin last_call.keys
    /\ last_call.exc = "RuntimeError"

\* a response that tells of a failure
Failing(r) == r.status # 200

\* C20 (as claimed): in every operation, a request that gets a failing response is
\* the last request of the operation, and the operation raises.
C20_FailureEndsOperation ==
    \A i \in 1..Len(last_call.reqs) :
        Failing(last_call.reqs[i].resp) =>
            i = Len(last_call.reqs) /\ last_call.exc # "none"

\* the requests handled so far that hold the keyword
Matching(gets_only) ==
    {i \in 1..Len(h_log) :
        h_log[i].req.keyword /\ (gets_only => h_log[i].req.method = "GET")}

\* C16 (as claimed): every request without the keyword is answered 404 and the
\* serving goes on; the first request with the keyword has its query string
\* stored, is the last request handled, and its query string is what is returned.
C16_FirstMatchOnly ==
    /\ \A i \in 1..Len(h_log) : ~h_log[i].req.keyword => h_log[i].status = 404
    /\ \A i \in Matching(FALSE) :
           /\ i = Len(h_log)
           /\ received_code = h_log[i].req.query
           /\ h_pc = "returned" => h_ret = h_log[i].req.query

\* C16 (amended): every GET request without the keyword is answered 404, every
\* request of another method 501, and the serving goes on; the first GET request
\* with the keyword is answered 200, has its query string stored, is the last
\* request handled, and its query string is what is returned; with no such
\* request handled None is returned.
C16_FirstMatchingGetOnly ==
    /\ \A i \in 1..Len(h_log) :
           /\ (h_log[i].req.method = "GET" /\ ~h_log[i].req.keyword) =>
                  h_log[i].status = 404
           /\ h_log[i].req.method # "GET" => h_log[i].status = 501
    /\ \A i \in Matching(TRUE) :
           /\ i = Len(h_log)
           /\ h_log[i].status = 200
           /\ received_code = h_log[i].req.query
           /\ h_pc = "returned" => h_ret = h_log[i].req.query
    /\ (h_pc = "returned" /\ Matching(TRUE) = {}) => h_ret = NoAttr

\* a 404, then the matching request; a connection made later was never served
C16_Witness ==
    /\ h_pc = "returned"
    /\ Len(h_log) = 2
    /\ h_log[1].status = 404
    /\ h_log[2].status = 200
    /\ h_ret = "123456"

\* C17 (as claimed): called with a timeout, wait_for_code_via_http returns in the
\* end, whatever the clients do.
C17_TimeoutAlwaysReturns == h_timeout ~> (h_pc = "returned")


\* the rows the service holds from the caller's offset on
RowsFromOffset ==
    IF srv_rows > gt_args.offset THEN srv_rows - gt_args.offset ELSE 0

\* the rows get_transactions is to return: all of them, or at most `limit`
Expected ==
    IF gt_args.limit.given /\ gt_args.limit.n > 0 /\ gt_args.limit.n < RowsFromOffset
    THEN gt_args.limit.n
    ELSE RowsFromOffset

\* C21: get_transactions with a positive limit L returns the first min(L, N)
\* records of the paginated sequence (N the rows the service holds from the
\* offset on) and sends no page request once the page holding the L-th record
\* has arrived; with limit None or 0 it returns all N records and its last
\* request is the one answered by the empty page.
C21_LimitTruncation ==
    /\ (gt_args.limit.given /\ gt_args.limit.n > 0) =>
           \A i \in 1..Len(page_reqs) : RowsBefore(page_reqs, i) < gt_args.limit.n
    /\ gt_pc = "returned" =>
           /\ Len(gt_result) = Expected
           /\ \A k \in 1..Len(gt_result) : gt_result[k].id = gt_args.offset + k - 1
           /\ page_reqs # <<>>
           /\ \A i \in 1..Len(page_reqs) : page_reqs[i].exc = "none"
           /\ IF gt_args.limit.given /\ gt_args.limit.n > 0
                    /\ gt_args.limit.n <= RowsFromOffset
              THEN RowsBefore(page_reqs, Len(page_reqs) + 1) >= gt_args.limit.n
              ELSE page_reqs[Len(page_reqs)].rows = 0

\* a call with limit 2 returned two records after one page of two rows, with
\* more rows left on the service
C21_Witness ==
    /\ gt_pc = "returned"
    /\ gt_args.limit.given /\ gt_args.limit.n = 2
    /\ RowsFromOffset > 2
    /\ Len(page_reqs) = 1 /\ page_reqs[1].rows = 2
    /\ Len(gt_result) = 2

====
